---------------------------- MODULE Spec2Model ----------------------------
(***************************************************************************)
(* Model of go-struct-to-ts (package go2ts).                               *)
(*                                                                         *)
(*   convert.go : SetRootDirName, convertType, writeType, validJSName,     *)
(*                writeFields, Convert                                     *)
(*   aggregator : ReadTypes, addNode, parseFile, findStructs,              *)
(*                createPackage                                            *)
(*                                                                         *)
(* Text the program writes is kept as TLA+ strings (concatenated with \o). *)
(* Identifiers and import paths on which the program does character-level  *)
(* work (first-letter test, regexp, HasPrefix, Base, Replace) are kept as  *)
(* sequences of one-character strings and rendered with Str.               *)
(*                                                                         *)
(* The Go parser, printer and the structtag library are outside the        *)
(* repository: an input is given by its parsed form (the nodes ast.Inspect *)
(* hands to the callback, in traversal order) and a struct tag by its raw  *)
(* text together with the result structtag.Parse gives for it.             *)
(***************************************************************************)
EXTENDS Integers, Sequences, FiniteSets, TLC

VARIABLES rootDirName, input, res

vars == <<rootDirName, input, res>>

(***************************************************************************)
(* Bounds of the model.                                                    *)
(***************************************************************************)
MaxFields == 2
MaxNodes == 3
MaxFiles == 2

(***************************************************************************)
(* Text helpers.                                                           *)
(***************************************************************************)
RECURSIVE Str(_)
Str(s) == IF s = <<>> THEN "" ELSE Head(s) \o Str(Tail(s))

RECURSIVE SeqsUpTo(_, _)
SeqsUpTo(S, n) ==
  IF n = 0 THEN {<<>>}
  ELSE LET shorter == SeqsUpTo(S, n - 1)
       IN  shorter \cup {Append(s, x) : s \in {t \in shorter : Len(t) = n - 1}, x \in S}

RECURSIVE Flatten(_)
Flatten(ss) == IF ss = <<>> THEN <<>> ELSE Head(ss) \o Flatten(Tail(ss))

tsIndent == "  "
tsTypePrefix == "export"

RECURSIVE Indent(_)
Indent(n) == IF n <= 0 THEN "" ELSE tsIndent \o Indent(n - 1)

(***************************************************************************)
(* Errors.  nil is the empty chain; logging.Bubble(err, msg) is taken to   *)
(* give a non-nil error carrying msg in front of the chain of err, also    *)
(* when err is nil (the program relies on that at both root-name guards    *)
(* and at the "path is not a directory" return).                           *)
(***************************************************************************)
Nil == <<>>

Bubble(err, msg) == <<msg>> \o err

(***************************************************************************)
(* strings.HasPrefix, strings.Replace(s, old, new, 1), filepath.Base on    *)
(* sequences of characters.                                                *)
(***************************************************************************)
HasPrefix(s, prefix) ==
  /\ Len(prefix) <= Len(s)
  /\ SubSeq(s, 1, Len(prefix)) = prefix

RECURSIVE ReplaceFirst(_, _, _)
ReplaceFirst(s, old, new) ==
  IF HasPrefix(s, old) THEN new \o SubSeq(s, Len(old) + 1, Len(s))
  ELSE IF s = <<>> THEN <<>>
  ELSE <<Head(s)>> \o ReplaceFirst(Tail(s), old, new)

RECURSIVE StripTrailingSlashes(_)
StripTrailingSlashes(p) ==
  IF p # <<>> /\ p[Len(p)] = "/" THEN StripTrailingSlashes(SubSeq(p, 1, Len(p) - 1))
  ELSE p

RECURSIVE AfterLastSlash(_)
AfterLastSlash(p) ==
  IF \E i \in 1..Len(p) : p[i] = "/"
  THEN AfterLastSlash(Tail(p))
  ELSE p

Base(p) ==
  IF p = <<>> THEN <<".">>
  ELSE LET q == StripTrailingSlashes(p)
       IN  IF q = <<>> THEN <<"/">> ELSE AfterLastSlash(q)


(***************************************************************************)
(* Type expressions (go/ast): one record per node, tagged by k.            *)
(*   Ident, StarExpr, ArrayType, StructType, SelectorExpr, MapType,        *)
(*   InterfaceType, IndexListExpr, and the node kinds writeType has no     *)
(*   case for (ChanType, FuncType).                                        *)
(***************************************************************************)
Ident(n) == [k |-> "Ident", name |-> n]
Star(x) == [k |-> "StarExpr", x |-> x]
Array(elt) == [k |-> "ArrayType", elt |-> elt]
Struct(fields) == [k |-> "StructType", fields |-> fields]
Selector(x, sel) == [k |-> "SelectorExpr", x |-> x, sel |-> sel]
Map(key, value) == [k |-> "MapType", key |-> key, value |-> value]
Interface == [k |-> "InterfaceType"]
IndexList == [k |-> "IndexListExpr"]
Chan(x) == [k |-> "ChanType", x |-> x]
FuncT == [k |-> "FuncType"]

HandledKinds ==
  {"StarExpr", "ArrayType", "StructType", "Ident", "SelectorExpr", "MapType",
   "InterfaceType", "IndexListExpr"}

(***************************************************************************)
(* Struct tags.  raw is the tag text between the back quotes, ok whether   *)
(* structtag.Parse accepts it, tags the key/name/options entries it gives. *)
(***************************************************************************)
NoTag == [present |-> FALSE]
Tag(raw, entries) == [present |-> TRUE, raw |-> raw, ok |-> TRUE, tags |-> entries]
BadTag(raw) == [present |-> TRUE, raw |-> raw, ok |-> FALSE, tags |-> <<>>]
TagEntry(key, name, options) == [key |-> key, name |-> name, options |-> options]

Field(names, type, tag) == [names |-> names, type |-> type, tag |-> tag]

\* structtag Tags.Get(key): the first entry with that key, or an error.
TagsGet(tags, key) ==
  LET hits == {i \in 1..Len(tags) : tags[i].key = key}
  IN  IF hits = {} THEN [found |-> FALSE]
      ELSE [found |-> TRUE,
            tag |-> tags[CHOOSE i \in hits : \A j \in hits : i <= j]]

HasOption(tag, opt) == opt \in tag.options

convertType(s) ==
  IF s = "bool" THEN "boolean"
  ELSE IF s \in {"int", "int8", "int16", "int32", "int64",
                 "uint", "uint8", "uint16", "uint32", "uint64",
                 "float32", "float64", "complex64", "complex128"}
       THEN "number"
  ELSE s

(***************************************************************************)
(* validJSName: MatchString of (?m)^[\pL_][\pL\pN_]*$ , a search: some     *)
(* line of n is a letter or underscore followed by letters, digits and     *)
(* underscores.  The alphabet is ASCII.                                    *)
(***************************************************************************)
UpperAZ ==
  {"A", "B", "C", "D", "E", "F", "G", "H", "I", "J", "K", "L", "M",
   "N", "O", "P", "Q", "R", "S", "T", "U", "V", "W", "X", "Y", "Z"}
LowerAZ ==
  {"a", "b", "c", "d", "e", "f", "g", "h", "i", "j", "k", "l", "m",
   "n", "o", "p", "q", "r", "s", "t", "u", "v", "w", "x", "y", "z"}
Digits == {"0", "1", "2", "3", "4", "5", "6", "7", "8", "9"}
LetterOrUnderscore == UpperAZ \cup LowerAZ \cup {"_"}

validJSName(n) ==
  \E i \in 1..Len(n) : \E j \in i..Len(n) :
    /\ i = 1 \/ n[i - 1] = "\n"
    /\ j = Len(n) \/ n[j + 1] = "\n"
    /\ n[i] \in LetterOrUnderscore
    /\ \A m \in i..j : n[m] \in LetterOrUnderscore \cup Digits

\* fmt %s of an ast.Expr: an *ast.Ident prints its name (it has a String
\* method); any other node prints as a Go struct dump, not as source text.
SprintExpr(e) == IF e.k = "Ident" THEN e.name ELSE "&{" \o e.k \o "}"

(***************************************************************************)
(* writeType and writeFields write into one shared builder: out is what    *)
(* the call appended, also when it returns an error.                       *)
(***************************************************************************)
RECURSIVE writeType(_, _, _)
RECURSIVE writeFields(_, _)
RECURSIVE writeField(_, _)

\* A writeFields that leaves a pointer field's type as declared.
fieldTypeKept(f) == f.type

\* The pointer case of writeFields (lines 191-195): optional is forced and
\* the field's type is replaced by the pointee, one level.
fieldType(f) == IF f.type.k = "StarExpr" THEN f.type.x ELSE f.type

\* A writeFields that tests only that the field has a name.
skipUnnamed(fieldName) == Len(fieldName) = 0

\* Lines 147-153: the field is skipped when it has no name or when the
\* first byte of its first name is outside 'A'..'Z'.
skipUnexported(fieldName) ==
  \/ Len(fieldName) = 0
  \/ fieldName[1] \notin UpperAZ

\* One iteration of the loop of writeFields (lines 145-203).
writeField(f, depth) ==
  LET fieldName == IF Len(f.names) # 0 /\ Len(f.names[1]) # 0
                   THEN f.names[1] ELSE <<>>
  IN
  IF skipUnexported(fieldName) THEN [kind |-> "skip"]
  ELSE IF f.tag.present /\ ~f.tag.ok
       THEN [kind |-> "abort",
             err |-> Bubble(<<"structtag: " \o f.tag.raw>>, "could not parse struct tag")]
  ELSE
  LET json == IF f.tag.present THEN TagsGet(f.tag.tags, "json") ELSE [found |-> FALSE]
      tagName == IF json.found THEN json.tag.name ELSE <<>>
      tagOptional == IF json.found THEN HasOption(json.tag, "omitempty") ELSE FALSE
  IN
  IF json.found /\ tagName = <<"-">> THEN [kind |-> "skip"]
  ELSE
  LET name == IF Len(tagName) = 0 THEN fieldName ELSE tagName
      quoted == ~validJSName(name)
      optional == tagOptional \/ f.type.k = "StarExpr"
      t == writeType(fieldType(f), depth, FALSE)
  IN  [kind |-> "line",
       text |-> Indent(depth + 1)
                \o (IF quoted THEN "'" ELSE "") \o Str(name)
                \o (IF quoted THEN "'" ELSE "")
                \o (IF optional THEN "?" ELSE "")
                \o ": " \o t.out \o ";\n"]

\* writeFields: lines is the text of each iteration that wrote a line, with
\* the field it wrote it for.  The error of writeType (line 202) is dropped.
writeFields(fields, depth) ==
  IF fields = <<>> THEN [out |-> "", err |-> Nil, lines |-> <<>>]
  ELSE
  LET step == writeField(Head(fields), depth)
  IN
  IF step.kind = "abort" THEN [out |-> "", err |-> step.err, lines |-> <<>>]
  ELSE
  LET rest == writeFields(Tail(fields), depth)
  IN  IF step.kind = "skip" THEN rest
      ELSE [out |-> step.text \o rest.out,
            err |-> rest.err,
            lines |-> <<[field |-> Head(fields), text |-> step.text]>> \o rest.lines]

writeType(t, depth, optionalParens) ==
  CASE t.k = "StarExpr" ->
         LET open == IF optionalParens THEN "(" ELSE ""
             x == writeType(t.x, depth, FALSE)
         IN  IF x.err # Nil
             THEN [out |-> open \o x.out, err |-> Bubble(x.err, "writeType StarExpr")]
             ELSE [out |-> open \o x.out \o " | undefined"
                             \o (IF optionalParens THEN ")" ELSE ""),
                   err |-> Nil]
    [] t.k = "ArrayType" ->
         IF t.elt.k = "Ident" /\ t.elt.name = "byte"
         THEN [out |-> "string", err |-> Nil]
         ELSE LET e == writeType(t.elt, depth, TRUE)
              IN  IF e.err # Nil
                  THEN [out |-> e.out, err |-> Bubble(e.err, "writeType ArrayType")]
                  ELSE [out |-> e.out \o "[]", err |-> Nil]
    [] t.k = "StructType" ->
         \* line 83: the result of writeFields is not looked at
         LET fs == writeFields(t.fields, depth + 1)
         IN  [out |-> "{\n" \o fs.out \o Indent(depth + 1) \o "}" \o ";", err |-> Nil]
    [] t.k = "Ident" -> [out |-> convertType(t.name), err |-> Nil]
    [] t.k = "SelectorExpr" ->
         LET longType == SprintExpr(t.x) \o "." \o t.sel
         IN  [out |-> CASE longType = "time.Time" -> "string"
                        [] longType = "time.Duration" -> "number"
                        [] longType = "decimal.Decimal" -> "number"
                        [] longType = "pgtype.Timestamptz" -> "string"
                        [] OTHER -> longType,
              err |-> Nil]
    [] t.k = "MapType" ->
         LET key == writeType(t.key, depth, FALSE)
         IN  IF key.err # Nil
             THEN [out |-> "{ [key: " \o key.out,
                   err |-> Bubble(key.err, "writeType MapType Key")]
             ELSE LET value == writeType(t.value, depth, FALSE)
                  IN  IF value.err # Nil
                      THEN [out |-> "{ [key: " \o key.out \o "]: " \o value.out,
                            err |-> Bubble(value.err, "writeType MapType Value")]
                      ELSE [out |-> "{ [key: " \o key.out \o "]: " \o value.out \o "}",
                            err |-> Nil]
    [] t.k = "InterfaceType" -> [out |-> "any", err |-> Nil]
    [] t.k = "IndexListExpr" -> [out |-> "any", err |-> Nil]
    [] OTHER ->
         [out |-> "", err |-> Bubble(<<"unhandled: " \o t.k>>, "writeType")]


(***************************************************************************)
(* Convert.  The nodes the callback of ast.Inspect acts on, in traversal   *)
(* order; a node of any other kind only lets the walk descend.             *)
(***************************************************************************)
\* alias is x.Name of the import spec, <<>> when it is nil.
ImportSpec(alias, path) == [k |-> "ImportSpec", alias |-> alias, path |-> path]
Comment(text) == [k |-> "Comment", text |-> text]
TypeSpec(name, type) == [k |-> "TypeSpec", name |-> name, type |-> type]

\* Lines 121-126 and 250-255: the alias of an import is its name or, when
\* it has none (alias = <<>>), the base of its path.
importName(x) == IF x.alias # <<>> THEN Str(x.alias) ELSE Str(Base(x.path))

\* The three strategies of lines 226-236.  An input is an expression, a
\* file, a statement list (parsed once wrapped in package main, func
\* main() {...}, whose two identifiers are walked first) or none of them.
ParseAttempts(form) ==
  CASE form = "expr" -> 1
    [] form = "file" -> 2
    [] OTHER -> 3

Parse(in) ==
  CASE in.form = "stmts" -> <<Ident("main"), Ident("main")>> \o in.nodes
    [] OTHER -> in.nodes

\* The separator of an *ast.TypeSpec that is not an interface (line 296).
typeSeparator(st) == IF ~st.first /\ ~st.lastWasComment THEN "\n\n" ELSE ""

\* The callback of ast.Inspect (lines 246-315) on one node.
inspect(st, x, root) ==
  CASE x.k = "ImportSpec" ->
         LET importPath == ReplaceFirst(x.path, root, <<"@">>)
         IN  [st EXCEPT !.emits = Append(@,
                "import * as " \o importName(x) \o " from \""
                  \o Str(importPath) \o "/types.go.ts\";\n")]
    [] x.k = "Ident" -> [st EXCEPT !.name = x.name]
    [] x.k = "Comment" ->
         [st EXCEPT !.emits = Append(@,
                      (IF ~st.first THEN "\n\n" ELSE "") \o x.text \o "\n"),
                    !.lastWasComment = TRUE]
    [] x.k = "ArrayType" ->
         [st EXCEPT !.emits = Append(@,
                      (IF ~st.first THEN "\n\n" ELSE "")
                        \o tsTypePrefix \o " type " \o st.name
                        \o " extends Array<" \o SprintExpr(x.elt) \o ">{}")]
    [] x.k = "TypeSpec" ->
         IF x.type.k = "InterfaceType"
         THEN [st EXCEPT !.emits = Append(@,
                 tsTypePrefix \o " interface " \o x.name \o " {\n" \o "}\n")]
         ELSE LET w == writeType(x.type, -1, FALSE)
                  text == typeSeparator(st) \o tsTypePrefix \o " type "
                            \o x.name \o " = " \o w.out
              IN  IF w.err # Nil
                  THEN [st EXCEPT !.emits = Append(@, text), !.builderErr = w.err]
                  ELSE [st EXCEPT !.emits = Append(@, text), !.first = FALSE]

RECURSIVE Inspect(_, _, _)
Inspect(nodes, st, root) ==
  IF nodes = <<>> THEN st
  ELSE Inspect(Tail(nodes), inspect(st, Head(nodes), root), root)

NoRegistry == <<>>

Result(op, root, out, err) ==
  [op |-> op, root |-> root, out |-> out, err |-> err, panic |-> FALSE,
   parses |-> 0, fsops |-> 0, emits |-> <<>>,
   imports |-> NoRegistry, usedImports |-> NoRegistry, block |-> <<>>]

\* A Convert without the guard of line 215.
rootDirNameIgnored(root) == FALSE

\* Line 215.
rootDirNameEmpty(root) == root = <<>>

Convert(root, goStructs) ==
  IF rootDirNameEmpty(root)
  THEN Result("Convert", root, "", Bubble(Nil, "RootDirName is empty"))
  ELSE IF goStructs.blank
  THEN Result("Convert", root, "", Nil)
  ELSE IF goStructs.form = "invalid"
  THEN [Result("Convert", root, "", Bubble(<<"syntax error">>, "could not parse Go code"))
          EXCEPT !.parses = ParseAttempts(goStructs.form)]
  ELSE
  LET st == Inspect(Parse(goStructs),
                    [name |-> "", first |-> TRUE, lastWasComment |-> FALSE,
                     builderErr |-> Nil, emits |-> <<>>],
                    root)
  IN  IF st.builderErr # Nil
      THEN [Result("Convert", root, "", Bubble(st.builderErr, "could not write type"))
              EXCEPT !.parses = ParseAttempts(goStructs.form), !.emits = st.emits]
      ELSE [Result("Convert", root, Str(st.emits), Nil)
              EXCEPT !.parses = ParseAttempts(goStructs.form), !.emits = st.emits]


(***************************************************************************)
(* The aggregator.  A directory is given by what os.Stat and os.ReadDir    *)
(* answer for it and by its entries; an entry by what os.Stat, os.ReadFile *)
(* and the parser answer for it and, when it parses, by the import and     *)
(* type specs ast.Inspect meets in it.                                     *)
(***************************************************************************)
Dir(stat, isDir, listable, files) ==
  [kind |-> "dir", stat |-> stat, isDir |-> isDir, listable |-> listable,
   files |-> files]

File(name, ext, stat, isDir, readable, parses, nodes) ==
  [name |-> name, ext |-> ext, stat |-> stat, isDir |-> isDir,
   readable |-> readable, parses |-> parses, nodes |-> nodes]

GoFile(name, nodes) == File(name, ".go", "ok", FALSE, TRUE, TRUE, nodes)

Put(m, key, value) ==
  [x \in DOMAIN m \cup {key} |-> IF x = key THEN value ELSE m[x]]

\* go/printer on a type expression and on the fields of a struct.  A TLA+
\* string cannot hold the back quote that delimits a raw tag literal: Quote
\* stands for it in the printed text.
Quote == "\""

RECURSIVE printExpr(_)
RECURSIVE printFields(_)
RECURSIVE printNames(_)
printNames(names) ==
  IF names = <<>> THEN ""
  ELSE Str(Head(names)) \o (IF Len(names) > 1 THEN ", " ELSE " ") \o printNames(Tail(names))

printFields(fields) ==
  IF fields = <<>> THEN ""
  ELSE LET f == Head(fields)
       IN  "\t" \o printNames(f.names) \o printExpr(f.type)
             \o (IF f.tag.present THEN " " \o Quote \o f.tag.raw \o Quote ELSE "")
             \o "\n" \o printFields(Tail(fields))

printExpr(t) ==
  CASE t.k = "Ident" -> t.name
    [] t.k = "StarExpr" -> "*" \o printExpr(t.x)
    [] t.k = "ArrayType" -> "[]" \o printExpr(t.elt)
    [] t.k = "StructType" ->
         IF t.fields = <<>> THEN "struct{}"
         ELSE "struct {\n" \o printFields(t.fields) \o "}"
    [] t.k = "SelectorExpr" -> printExpr(t.x) \o "." \o t.sel
    [] t.k = "MapType" -> "map[" \o printExpr(t.key) \o "]" \o printExpr(t.value)
    [] t.k = "InterfaceType" -> "interface{}"
    [] t.k = "IndexListExpr" -> "Pair[K, V]"
    [] t.k = "ChanType" -> "chan " \o printExpr(t.x)
    [] OTHER -> "func()"

addNode(filePath, n) ==
  "/**\n * [file://./" \o filePath \o "](" \o filePath \o ")\n */\n"
    \o "type " \o n.name \o " " \o printExpr(n.type) \o "\n\n"

\* The selector fields of a struct, in order: the aliases lines 141-145 record.
RECURSIVE usedByFields(_, _)
usedByFields(fields, usedImports) ==
  IF fields = <<>> THEN usedImports
  ELSE LET f == Head(fields)
       IN  usedByFields(Tail(fields),
             IF f.type.k = "SelectorExpr"
             THEN Put(usedImports, f.type.x.name, f.type.sel)
             ELSE usedImports)

\* findStructs: acc carries convertBuf and the two registries.
RECURSIVE findStructs(_, _, _)
findStructs(nodes, filePath, acc) ==
  IF nodes = <<>> THEN acc
  ELSE
  LET x == Head(nodes)
      next ==
        CASE x.k = "ImportSpec" ->
               [acc EXCEPT !.imports = Put(@, importName(x), x.path)]
          [] x.k = "TypeSpec" ->
               [acc EXCEPT
                  !.convertBuf = @ \o addNode(filePath, x),
                  !.usedImports =
                     CASE x.type.k = "SelectorExpr" -> Put(@, x.type.x.name, x.type.sel)
                       [] x.type.k = "StructType" -> usedByFields(x.type.fields, @)
                       [] OTHER -> @]
          [] OTHER -> acc
  IN  findStructs(Tail(nodes), filePath, next)

\* A createPackage without the filter of line 167.
underAnyRoot(p, root) == TRUE

\* Line 167.
underRoot(p, root) == HasPrefix(p, root)

\* createPackage.  order is the order in which range usedImports yields
\* the keys: Go leaves it unspecified, any permutation can occur.
RECURSIVE importBlock(_, _, _, _)
importBlock(order, imports, usedImports, root) ==
  IF order = <<>> THEN <<>>
  ELSE
  LET key == Head(order)
      rest == importBlock(Tail(order), imports, usedImports, root)
  IN  IF key \notin DOMAIN imports THEN rest
      ELSE IF ~underRoot(imports[key], root) THEN rest
      ELSE LET p == imports[key]
           IN  IF Str(Base(p)) = key
               THEN <<[name |-> "", path |-> p,
                       text |-> "\t\"" \o Str(p) \o "\"\n"]>> \o rest
               ELSE <<[name |-> key, path |-> p,
                       text |-> "\t" \o key \o " \"" \o Str(p) \o "\"\n"]>> \o rest

RECURSIVE blockText(_)
blockText(block) ==
  IF block = <<>> THEN "" ELSE Head(block).text \o blockText(Tail(block))

createPackage(convertBuf, imports, usedImports, root, order) ==
  LET block == importBlock(order, imports, usedImports, root)
  IN  [block |-> block,
       out |-> "package main\n\nimport (\n" \o blockText(block)
                 \o ")\n\nfunc main() {\n" \o convertBuf \o "}\n"]

\* The loop of ReadTypes over the directory's entries (lines 46-67).
RECURSIVE readFiles(_, _)
readFiles(files, acc) ==
  IF files = <<>> \/ acc.err # Nil THEN acc
  ELSE
  LET file == Head(files)
  IN  IF file.ext # ".go" THEN readFiles(Tail(files), acc)
      ELSE IF file.stat # "ok"
      THEN [acc EXCEPT !.fsops = @ + 1,
                       !.err = Bubble(<<"stat " \o file.name>>, "could not stat file")]
      ELSE IF file.isDir THEN readFiles(Tail(files), [acc EXCEPT !.fsops = @ + 1])
      ELSE IF ~file.readable
      THEN [acc EXCEPT !.fsops = @ + 2,
                       !.err = Bubble(Bubble(<<"open " \o file.name>>, "could not read file"),
                                      "could not parse file")]
      ELSE IF ~file.parses
      THEN [acc EXCEPT !.fsops = @ + 2, !.parses = @ + 1,
                       !.err = Bubble(Bubble(<<"syntax error">>, "could not parse Go code"),
                                      "could not parse file")]
      ELSE readFiles(Tail(files),
             findStructs(file.nodes, file.name,
                         [acc EXCEPT !.fsops = @ + 2, !.parses = @ + 1]))

Scan(dir) ==
  readFiles(dir.files,
            [convertBuf |-> "", imports |-> NoRegistry, usedImports |-> NoRegistry,
             fsops |-> 2, parses |-> 0, err |-> Nil])

Orders(S) ==
  {o \in [1..Cardinality(S) -> S] : \A i, j \in DOMAIN o : i # j => o[i] # o[j]}

ReadTypes(root, packagePath, order) ==
  IF root = <<>>
  THEN Result("ReadTypes", root, "", Bubble(Nil, "RootDirName is empty"))
  ELSE IF packagePath.stat = "notexist"
  THEN [Result("ReadTypes", root, "", Bubble(<<"no such file or directory">>, "path does not exist"))
          EXCEPT !.fsops = 1]
  ELSE IF packagePath.stat # "ok"
  THEN \* line 31: info is nil after a Stat error that is not IsNotExist
       [Result("ReadTypes", root, "", Nil) EXCEPT !.fsops = 1, !.panic = TRUE]
  ELSE IF ~packagePath.isDir
  THEN [Result("ReadTypes", root, "", Bubble(Nil, "path is not a directory"))
          EXCEPT !.fsops = 1]
  ELSE IF ~packagePath.listable
  THEN [Result("ReadTypes", root, "", Bubble(<<"permission denied">>, "could not read directory"))
          EXCEPT !.fsops = 2]
  ELSE
  LET acc == Scan(packagePath)
  IN  IF acc.err # Nil
      THEN [Result("ReadTypes", root, "", acc.err)
              EXCEPT !.fsops = acc.fsops, !.parses = acc.parses]
      ELSE IF DOMAIN acc.usedImports = {}
      THEN [Result("ReadTypes", root, acc.convertBuf, Nil)
              EXCEPT !.fsops = acc.fsops, !.parses = acc.parses,
                     !.imports = acc.imports, !.usedImports = acc.usedImports]
      ELSE LET pkg == createPackage(acc.convertBuf, acc.imports, acc.usedImports, root, order)
           IN  [Result("ReadTypes", root, pkg.out, Nil)
                  EXCEPT !.fsops = acc.fsops, !.parses = acc.parses,
                         !.imports = acc.imports, !.usedImports = acc.usedImports,
                         !.block = pkg.block]


(***************************************************************************)
(* Inputs.  Identifiers and paths, character by character.                 *)
(***************************************************************************)
nName == <<"N", "a", "m", "e">>
nname == <<"n", "a", "m", "e">>
nAge == <<"A", "g", "e">>
nage == <<"a", "g", "e">>
nA == <<"A">>
nB == <<"B">>
na == <<"a">>
nP == <<"P">>
nFirstName == <<"f", "i", "r", "s", "t", "-", "n", "a", "m", "e">>
nT == <<"t">>
nM == <<"m">>

pAM == <<"a", "/", "m">>
pAT == <<"a", "/", "t", "y">>
pLQ == <<"l", "/", "a", "/", "q">>
pLM == <<"l", "/", "m">>

tagName == Tag("json:\"name\"", <<TagEntry("json", nname, {})>>)
tagAge == Tag("json:\"age,omitempty\"", <<TagEntry("json", nage, {"omitempty"})>>)
tagOmit == Tag("json:\"-\"", <<TagEntry("json", <<"-">>, {})>>)
tagBad == BadTag("json:name")
tagDb == Tag("db:\"age\"", <<TagEntry("db", nage, {})>>)
tagEmptyName == Tag("json:\",omitempty\"", <<TagEntry("json", <<>>, {"omitempty"})>>)
tagFirstName == Tag("db:\"n\" json:\"first-name\"",
                    <<TagEntry("db", <<"n">>, {}), TagEntry("json", nFirstName, {})>>)

NestedStruct ==
  Struct(<<Field(<<nage>>, Ident("int"), tagName),
           Field(<<nAge>>, Star(Ident("int")), NoTag),
           Field(<<nP>>, FuncT, NoTag)>>)

FieldTypes ==
  {Star(Star(Ident("int"))), Array(Ident("byte")), Array(Star(Ident("int"))),
   Map(Ident("string"), Ident("bool")), Selector(Ident("time"), "Time"),
   Chan(Ident("int")), Map(Chan(Ident("int")), Ident("int")), IndexList,
   Interface, Star(Selector(Ident("m"), "User")), NestedStruct}

FieldSet ==
  {Field(names, Ident("string"), tag) :
     names \in {<<nName>>, <<nage>>, <<>>, <<nA, nB>>, <<na, nB>>},
     tag \in {NoTag, tagName}}
  \cup {Field(names, Ident("string"), tag) :
          names \in {<<nName>>, <<nage>>}, tag \in {tagOmit, tagBad}}
  \cup {Field(<<nAge>>, Star(Ident("int")), tag) :
          tag \in {NoTag, tagAge, tagDb, tagEmptyName, tagFirstName}}
  \cup {Field(<<nP>>, type, NoTag) : type \in FieldTypes}

ImportSet ==
  {ImportSpec(<<>>, pAM), ImportSpec(nT, pAT), ImportSpec(<<>>, pLQ), ImportSpec(nM, pLM)}

\* Declarations and statements of a statement-list input, each with the
\* nodes the walk meets in it (`var ids []int` gives an identifier and an
\* array type outside any type spec).
DeclSet ==
  {<<Comment("// c")>>,
   <<TypeSpec("A", Ident("int"))>>,
   <<TypeSpec("ID", Array(Ident("byte")))>>,
   <<TypeSpec("L", Array(Ident("int")))>>,
   <<TypeSpec("I", Interface)>>,
   <<TypeSpec("S", Struct(<<Field(<<nName>>, Ident("string"), tagName)>>))>>,
   <<TypeSpec("C", Chan(Ident("int")))>>,
   <<TypeSpec("M", Map(Ident("string"), Array(Chan(Ident("int")))))>>,
   <<Ident("ids"), Array(Ident("int"))>>}

Text(form, nodes) == [kind |-> "text", blank |-> FALSE, form |-> form, nodes |-> nodes]

StructInputs ==
  {Text("stmts", <<TypeSpec("User", Struct(fs))>>) : fs \in SeqsUpTo(FieldSet, MaxFields)}

StmtInputs ==
  {Text("stmts", Flatten(ds)) : ds \in SeqsUpTo(DeclSet, MaxNodes)}

FileInputs ==
  {Text("file", <<Ident("models")>> \o is \o d) :
     is \in SeqsUpTo(ImportSet, MaxNodes - 1),
     d \in {<<>>, <<TypeSpec("A", Selector(Ident("m"), "User"))>>}}

ExprInputs ==
  {Text("expr", <<Array(Ident("byte"))>>),
   Text("expr", <<Array(Star(Ident("int")))>>),
   Text("expr", <<Ident("Name"), Ident("string")>>)}

OtherInputs ==
  {[kind |-> "text", blank |-> TRUE, form |-> "invalid", nodes |-> <<>>],
   Text("invalid", <<>>)}

TextInputs == StructInputs \cup StmtInputs \cup FileInputs \cup ExprInputs \cup OtherInputs

FileSet ==
  {GoFile("user.go",
          <<ImportSpec(<<>>, pAM),
            TypeSpec("User", Struct(<<Field(<<nName>>, Ident("string"), NoTag),
                                      Field(<<nP>>, Selector(Ident("m"), "Profile"), NoTag)>>))>>),
   GoFile("team.go",
          <<ImportSpec(nT, pAT), ImportSpec(<<>>, pLQ),
            TypeSpec("Alias", Selector(Ident("t"), "Team")),
            ImportSpec(<<"x">>, pAM),
            TypeSpec("Q", Struct(<<Field(<<nA>>, Selector(Ident("q"), "Q"), NoTag),
                                   Field(<<nB>>, Selector(Ident("z"), "Z"), NoTag),
                                   Field(<<nP>>, Star(Selector(Ident("x"), "X")), NoTag)>>))>>),
   GoFile("other.go",
          <<ImportSpec(nM, pLM), TypeSpec("Plain", Ident("int"))>>),
   GoFile("z.go",
          <<TypeSpec("Z", Struct(<<Field(<<nA>>, Selector(Ident("z"), "Z"), NoTag)>>))>>),
   File("README.md", ".md", "ok", FALSE, TRUE, FALSE, <<>>),
   File("sub.go", ".go", "ok", TRUE, FALSE, FALSE, <<>>),
   File("gone.go", ".go", "err", FALSE, FALSE, FALSE, <<>>),
   File("locked.go", ".go", "ok", FALSE, FALSE, FALSE, <<>>),
   File("broken.go", ".go", "ok", FALSE, TRUE, FALSE, <<>>)}

DirInputs ==
  {Dir("ok", TRUE, TRUE, fs) : fs \in SeqsUpTo(FileSet, MaxFiles)}
  \cup {Dir("notexist", FALSE, FALSE, <<>>), Dir("denied", FALSE, FALSE, <<>>),
        Dir("ok", FALSE, FALSE, <<>>), Dir("ok", TRUE, FALSE, <<>>)}

Inputs == TextInputs \cup DirInputs

RootNames == {<<>>, <<"a">>, <<"l">>}

(***************************************************************************)
(* The state machine: the process-wide root name, the argument the caller  *)
(* holds, and the result of the latest call of an entry point.             *)
(***************************************************************************)
NoCall == Result("none", <<>>, "", Nil)

Init ==
  /\ rootDirName = <<>>
  /\ input \in Inputs
  /\ res = NoCall

SetRootDirName(name) ==
  /\ rootDirName' = name
  /\ UNCHANGED <<input, res>>

ConvertCall ==
  /\ input.kind = "text"
  /\ res' = Convert(rootDirName, input)
  /\ UNCHANGED <<rootDirName, input>>

UsedKeys(dir) ==
  IF dir.stat = "ok" /\ dir.isDir /\ dir.listable
  THEN DOMAIN Scan(dir).usedImports ELSE {}

ReadTypesCall ==
  /\ input.kind = "dir"
  /\ \E order \in Orders(UsedKeys(input)) :
       res' = ReadTypes(rootDirName, input, order)
  /\ UNCHANGED <<rootDirName, input>>

Next ==
  \/ \E name \in RootNames : SetRootDirName(name)
  \/ ConvertCall
  \/ ReadTypesCall

Spec == Init /\ [][Next]_vars


(***************************************************************************)
(* Properties.                                                             *)
(***************************************************************************)
Exported(name) == Len(name) # 0 /\ name[1] \in UpperAZ

ConvertRan ==
  /\ res.op = "Convert"
  /\ res.root # <<>>
  /\ ~input.blank
  /\ input.form # "invalid"

TypeSpecs(in) == {i \in 1..Len(in.nodes) : in.nodes[i].k = "TypeSpec"}

\* Every struct type in t with the depth writeFields is called with for it.
RECURSIVE StructsIn(_, _)
StructsIn(t, depth) ==
  CASE t.k = "StructType" ->
         {[fields |-> t.fields, depth |-> depth + 1]}
           \cup UNION {StructsIn(t.fields[i].type, depth + 1) : i \in 1..Len(t.fields)}
    [] t.k = "StarExpr" -> StructsIn(t.x, depth)
    [] t.k = "ArrayType" -> StructsIn(t.elt, depth)
    [] t.k = "MapType" -> StructsIn(t.key, depth) \cup StructsIn(t.value, depth)
    [] OTHER -> {}

InputStructs == UNION {StructsIn(input.nodes[i].type, -1) : i \in TypeSpecs(input)}

Lines(s) == LET ls == writeFields(s.fields, s.depth).lines IN {ls[i] : i \in 1..Len(ls)}

\* C1: while the root namespace is the empty string, a call of Convert or
\* of ReadTypes returns a non-nil error and the empty string, and has made
\* no parser call and no file-system call.
C1_UnsetRootFailsFast ==
  (res.op \in {"Convert", "ReadTypes"} /\ res.root = <<>>)
    => /\ res.err # Nil
       /\ res.out = ""
       /\ ~res.panic
       /\ res.parses = 0
       /\ res.fsops = 0

C1_Witness ==
  /\ res.op = "Convert"
  /\ res.root = <<>>
  /\ input.kind = "text" /\ ~input.blank /\ input.form = "stmts"
  /\ TypeSpecs(input) # {}
  /\ res.err = <<"RootDirName is empty">>

\* C2: a Convert input holding a struct with an exported field whose tag is
\* malformed gives a non-nil error and no output.
MalformedTagIn(in) ==
  \E i \in TypeSpecs(in) :
    /\ in.nodes[i].type.k = "StructType"
    /\ \E j \in 1..Len(in.nodes[i].type.fields) :
         LET f == in.nodes[i].type.fields[j]
         IN  /\ f.names # <<>> /\ Exported(f.names[1])
             /\ f.tag.present /\ ~f.tag.ok

C2_MalformedTagAborts ==
  (ConvertRan /\ MalformedTagIn(input)) => (res.err # Nil /\ res.out = "")

\* C3: a declaration with a type-expression node that has no translation
\* rule (at the top, or under a pointer, an array, a map key or value, or
\* the type of a retained struct field) gives a non-nil error and an empty
\* output.
RECURSIVE Untranslatable(_)
Untranslatable(t) ==
  CASE t.k \notin HandledKinds -> TRUE
    [] t.k = "StarExpr" -> Untranslatable(t.x)
    [] t.k = "ArrayType" -> Untranslatable(t.elt)
    [] t.k = "MapType" -> Untranslatable(t.key) \/ Untranslatable(t.value)
    [] t.k = "StructType" ->
         \E i \in 1..Len(t.fields) :
           /\ t.fields[i].names # <<>> /\ Exported(t.fields[i].names[1])
           /\ ~t.fields[i].tag.present
           /\ \A j \in 1..i : ~t.fields[j].tag.present
           /\ Untranslatable(t.fields[i].type)
    [] OTHER -> FALSE

C3_UntranslatableNodeFails ==
  (ConvertRan /\ \E i \in TypeSpecs(input) : Untranslatable(input.nodes[i].type))
    => (res.err # Nil /\ res.out = "")

\* C4: in an input of comments and type declarations, a declaration that
\* follows an earlier declaration is written after one blank separator line
\* ("\n\n"), unless the node just before it is a comment, and then with no
\* separator of its own.
DeclText(n) ==
  IF n.type.k = "InterfaceType"
  THEN "export interface " \o n.name \o " {\n}\n"
  ELSE "export type " \o n.name \o " = " \o writeType(n.type, -1, FALSE).out

CommentsAndDecls(in) ==
  /\ in.kind = "text" /\ in.form = "stmts"
  /\ \A i \in 1..Len(in.nodes) : in.nodes[i].k \in {"Comment", "TypeSpec"}

\* The struct, alias and array declarations (an interface declaration is
\* written by a branch of its own, which writes no separator at all).
TypeDecls(in) == {i \in TypeSpecs(in) : in.nodes[i].type.k # "InterfaceType"}

C4_SeparatorBetweenDeclarations ==
  (ConvertRan /\ res.err = Nil /\ CommentsAndDecls(input))
    => \A j \in TypeDecls(input) :
         (\E i \in TypeDecls(input) : i < j)
           => res.emits[j] = (IF input.nodes[j - 1].k = "Comment" THEN "" ELSE "\n\n")
                               \o DeclText(input.nodes[j])

\* C5: the declaration type <Name> []<Elem> is written as
\* export type <Name> extends Array<<Elem>> {} , the element as source text.
NamedArrayDecl(in) ==
  /\ in.kind = "text" /\ in.form = "stmts"
  /\ Len(in.nodes) = 1
  /\ in.nodes[1].k = "TypeSpec"
  /\ in.nodes[1].type.k = "ArrayType"
  /\ in.nodes[1].type.elt.k = "Ident"

C5_NamedArrayPath ==
  (ConvertRan /\ NamedArrayDecl(input))
    => res.out = "export type " \o input.nodes[1].name \o " extends Array<"
                   \o input.nodes[1].type.elt.name \o "> {}"

\* C6: when ReadTypes returns the synthesized unit, its import block holds
\* exactly the aliases that are declared, used, and declared with a path
\* that starts with the root namespace, each once.
EntryAlias(e) == IF e.name # "" THEN e.name ELSE Str(Base(e.path))

RetainedAliases ==
  {key \in DOMAIN res.imports \cap DOMAIN res.usedImports :
     /\ Len(res.root) <= Len(res.imports[key])
     /\ \A i \in 1..Len(res.root) : res.imports[key][i] = res.root[i]}

C6_ImportBlockIsDeclaredUsedRooted ==
  (res.op = "ReadTypes" /\ res.err = Nil /\ ~res.panic /\ DOMAIN res.usedImports # {})
    => /\ {EntryAlias(res.block[i]) : i \in 1..Len(res.block)} = RetainedAliases
       /\ Len(res.block) = Cardinality(RetainedAliases)
       /\ \A i \in 1..Len(res.block) :
            res.block[i].path = res.imports[EntryAlias(res.block[i])]
       /\ res.out = "package main\n\nimport (\n" \o blockText(res.block)
                      \o ")\n\nfunc main() {\n" \o Scan(input).convertBuf \o "}\n"

C6_Witness ==
  /\ res.op = "ReadTypes" /\ res.err = Nil
  /\ Len(res.block) >= 2
  /\ \E key \in DOMAIN res.usedImports \cap DOMAIN res.imports : key \notin RetainedAliases
  /\ \E key \in DOMAIN res.usedImports : key \notin DOMAIN res.imports
  /\ \E key \in DOMAIN res.imports : key \notin DOMAIN res.usedImports

\* C7: two successive calls of the same entry point on the same input under
\* the same root namespace return the same text.
C7_Deterministic ==
  [][(res.op # "none" /\ res'.op = res.op /\ res'.root = res.root /\ input' = input)
       => res'.out = res.out]_vars

\* C8: a line writeFields writes for a field declared as pointer to T is
\* <indent><name>?: <compiled T>;  with T compiled by writeType as it
\* stands (one level unwrapped, nothing appended for it); the User example
\* gives the text of the spec.
EmittedNames(f) ==
  LET names == {Str(f.names[1])}
                 \cup (IF f.tag.present
                       THEN {Str(f.tag.tags[i].name) : i \in 1..Len(f.tag.tags)}
                       ELSE {})
  IN  names \cup {"'" \o n \o "'" : n \in names}

UserExample ==
  Text("stmts",
       <<TypeSpec("User", Struct(<<Field(<<nName>>, Ident("string"), tagName),
                                   Field(<<nAge>>, Star(Ident("int")), tagAge)>>))>>)

C8_PointerFieldIsOptional ==
  ConvertRan
    => /\ \A s \in InputStructs : \A l \in Lines(s) :
            l.field.type.k = "StarExpr"
              => \E name \in EmittedNames(l.field) :
                   l.text = Indent(s.depth + 1) \o name \o "?: "
                              \o writeType(l.field.type.x, s.depth, FALSE).out \o ";\n"
       /\ input = UserExample
            => res.out = "export type User = {\n  name: string;\n  age?: number;\n};"

C8_Witness ==
  /\ ConvertRan
  /\ input.nodes = <<TypeSpec("User",
                       Struct(<<Field(<<nAge>>, Star(Ident("int")), NoTag),
                                Field(<<nP>>, Star(Star(Ident("int"))), NoTag)>>))>>
  /\ res.out = "export type User = {\n  Age?: number;\n  P?: number | undefined;\n};"

\* C9: no line of a struct body, at any depth, is written for a field with
\* no name or a name that does not start with an upper-case letter, and the
\* text Convert returns is the text it returns for the input with those
\* fields taken out.
Unexported(f) == f.names = <<>> \/ ~Exported(f.names[1])

RECURSIVE StripType(_)
RECURSIVE StripFields(_)
StripFields(fields) ==
  IF fields = <<>> THEN <<>>
  ELSE IF Unexported(Head(fields)) THEN StripFields(Tail(fields))
  ELSE <<[Head(fields) EXCEPT !.type = StripType(@)]>> \o StripFields(Tail(fields))

StripType(t) ==
  CASE t.k = "StructType" -> Struct(StripFields(t.fields))
    [] t.k = "StarExpr" -> Star(StripType(t.x))
    [] t.k = "ArrayType" -> Array(StripType(t.elt))
    [] t.k = "MapType" -> Map(StripType(t.key), StripType(t.value))
    [] OTHER -> t

StripInput(in) ==
  [in EXCEPT !.nodes = [i \in 1..Len(in.nodes) |->
                          IF in.nodes[i].k = "TypeSpec"
                          THEN [in.nodes[i] EXCEPT !.type = StripType(@)]
                          ELSE in.nodes[i]]]

C9_UnexportedNeverEmitted ==
  ConvertRan
    => /\ \A s \in InputStructs : \A l \in Lines(s) : ~Unexported(l.field)
       /\ res.out = Convert(res.root, StripInput(input)).out
       /\ res.err = Convert(res.root, StripInput(input)).err

C9_Witness ==
  /\ ConvertRan
  /\ input.nodes = <<TypeSpec("User",
                       Struct(<<Field(<<nage>>, Ident("string"), tagName),
                                Field(<<nName>>, Ident("string"), NoTag)>>))>>
  /\ res.out = "export type User = {\n  Name: string;\n};"

\* C10: in a struct whose tags all parse, every exported name whose json
\* tag name is not "-" has one line, in declaration order: there are as
\* many lines as such names and the i-th line belongs to the field of the
\* i-th of them.
RECURSIVE RetainedNames(_)
RetainedNames(fields) ==
  IF fields = <<>> THEN <<>>
  ELSE LET f == Head(fields)
           json == IF f.tag.present THEN TagsGet(f.tag.tags, "json") ELSE [found |-> FALSE]
           omitted == json.found /\ json.tag.name = <<"-">>
       IN  (IF omitted THEN <<>>
            ELSE [i \in 1..Len(SelectSeq(f.names, Exported)) |-> f])
             \o RetainedNames(Tail(fields))

TagsParse(fields) == \A i \in 1..Len(fields) : fields[i].tag.present => fields[i].tag.ok

C10_OneLinePerRetainedField ==
  ConvertRan
    => \A s \in InputStructs :
         TagsParse(s.fields)
           => LET ls == writeFields(s.fields, s.depth).lines
                  want == RetainedNames(s.fields)
              IN  /\ Len(ls) = Len(want)
                  /\ \A i \in 1..Len(ls) : ls[i].field = want[i]

=============================================================================
